---------------------------- MODULE Spec2Model ----------------------------
(***************************************************************************)
(* source/conf.py of the iceoryx2 book: the Sphinx configuration module.   *)
(*                                                                         *)
(* The module is a straight-line Python program of 25 assignments.  The    *)
(* model executes it statement by statement into a namespace (config),     *)
(* then lets the consumers of the table (sphinx-multiversion's ref         *)
(* selection, the linkcheck builder's ignore list) read it, and finally    *)
(* discards the table and loads it again for the next build.               *)
(*                                                                         *)
(* Text whose characters matter (regular expressions, colour values, file  *)
(* suffixes, ref names, URLs) is a sequence of one-character strings;      *)
(* other text is an atomic string.  A dict display is the sequence of its  *)
(* key/value entries in source order, evaluated by DictOf.                 *)
(***************************************************************************)
EXTENDS Integers, Sequences, FiniteSets

VARIABLES
  phase,     \* "loading" while conf.py is executed, "loaded" afterwards
  pc,        \* number of statements of conf.py executed in this load
  config,    \* the namespace: setting name -> value
  writes,    \* setting name -> number of assignments to it in this load
  dupKeys,   \* names of the dict displays that repeated a key in this load
  env,       \* what the interpreter's environment offers this build (the year)
  builds,    \* number of builds finished
  prev,      \* the table of the previous build, kept to compare
  probe      \* the last read a consumer made of the table, and its outcome

vars == <<phase, pc, config, writes, dupKeys, env, builds, prev, probe>>

(***************************************************************************)
(* Bounds of the model.                                                    *)
(***************************************************************************)
MaxBuilds == 1       \* builds after the first
MaxNameLen == 7      \* longest generated ref name
MaxSuffixLen == 1    \* longest tail appended to a generated URL

(***************************************************************************)
(* conf.py, lines 4-6: project information.                                *)
(***************************************************************************)
project == "the iceoryx2 book"
copyright == "2025, ekxide.io"
author == "ekxide developers"

(***************************************************************************)
(* conf.py, lines 11-33: general configuration.                            *)
(***************************************************************************)
extensions ==
  << "sphinx.ext.autodoc", "sphinx.ext.viewcode", "sphinxcontrib.mermaid",
     "myst_parser", "sphinx_design", "sphinx_multiversion" >>

myst_enable_extensions == << "deflist", "attrs_block", "attrs_inline" >>
myst_heading_anchors == 3

smv_branch_whitelist == <<"^", "m", "a", "i", "n", "$">>
\* The tag whitelist with a repeat typed twice at its end.
smv_tag_whitelist_repeat_twice ==
  <<"^", "v", "\\", "d", "+", "\\", ".", "\\", "d", "+", "\\", ".", "\\", "d", "+", "*", "$">>

smv_tag_whitelist == <<"^", "v", "\\", "d", "+", "\\", ".", "\\", "d", "+", "\\", ".", "\\", "d", "+", "$">>
smv_remote_whitelist == <<"^", "o", "r", "i", "g", "i", "n", "$">>
\* The released pattern without its closing anchor.
smv_released_pattern_open_end ==
  <<"^", "t", "a", "g", "s", "/", "v", "\\", "d", "+", "\\", ".", "\\", "d", "+", "\\", ".", "\\", "d", "+">>

smv_released_pattern == <<"^", "t", "a", "g", "s", "/", "v", "\\", "d", "+", "\\", ".", "\\", "d", "+", "\\", ".", "\\", "d", "+", "$">>
templates_path == << "_templates" >>
exclude_patterns == << >>

(***************************************************************************)
(* conf.py, lines 35-38: the source-type mapping, as written.              *)
(***************************************************************************)
\* The mapping with the dot of the Markdown suffix left out.
source_suffix_without_dot ==
  << << <<".", "r", "s", "t">>, "restructuredtext" >>,
     << <<"m", "d">>, "markdown" >> >>

source_suffix ==
  << << <<".", "r", "s", "t">>, "restructuredtext" >>,
     << <<".", "m", "d">>, "markdown" >> >>
(***************************************************************************)
(* conf.py, lines 43-52: the linkcheck builder.  linkcheck_rate_limit_     *)
(* timeout is the float 60.0; the model keeps its numeric value.           *)
(***************************************************************************)
linkcheck_timeout == 30
linkcheck_workers == 5
\* A retry count below zero.
linkcheck_retries_negative == 0 - 1

linkcheck_retries == 3
\* The ignore list with the dots of the address left unescaped.
linkcheck_ignore_unescaped ==
  << <<"h", "t", "t", "p", ":", "/", "/", "l", "o", "c", "a", "l", "h", "o", "s", "t", ".", "*">>,
     <<"h", "t", "t", "p", ":", "/", "/", "1", "2", "7", ".", "0", ".", "0", ".", "1", ".", "*">> >>

linkcheck_ignore ==
  << <<"h", "t", "t", "p", ":", "/", "/", "l", "o", "c", "a", "l", "h", "o", "s", "t", ".", "*">>,
     <<"h", "t", "t", "p", ":", "/", "/", "1", "2", "7", "\\", ".", "0", "\\", ".", "0", "\\", ".", "1", ".", "*">> >>
linkcheck_rate_limit_timeout == 60
linkcheck_anchors == TRUE

(***************************************************************************)
(* conf.py, lines 57-112: HTML output.                                     *)
(***************************************************************************)
html_theme == "furo"
html_title == "The iceoryx2 Book"

light_css_variables ==
  << <<"color-brand-primary", <<"#", "6", "c", "7", "b", "7", "f">>>>,
     <<"color-brand-content", <<"#", "6", "c", "7", "b", "7", "f">>>>,
     <<"color-background-primary", <<"#", "f", "f", "f", "f", "f", "f">>>>,
     <<"color-background-secondary", <<"#", "f", "9", "f", "a", "f", "b">>>>,
     <<"color-background-hover", <<"#", "f", "3", "f", "4", "f", "6">>>>,
     <<"color-background-border", <<"#", "e", "5", "e", "7", "e", "b">>>>,
     <<"color-foreground-primary", <<"#", "1", "f", "2", "9", "3", "7">>>>,
     <<"color-foreground-secondary", <<"#", "6", "b", "7", "2", "8", "0">>>>,
     <<"color-foreground-muted", <<"#", "9", "c", "a", "3", "a", "f">>>>,
     <<"color-foreground-border", <<"#", "e", "5", "e", "7", "e", "b">>>>,
     <<"color-code-background", <<"#", "f", "3", "f", "4", "f", "6">>>>,
     <<"color-code-foreground", <<"#", "1", "f", "2", "9", "3", "7">>>>,
     <<"color-link", <<"#", "6", "c", "7", "b", "7", "f">>>>,
     <<"color-link-underline", <<"#", "6", "c", "7", "b", "7", "f">>>>,
     <<"color-link-underline--hover", <<"#", "4", "b", "5", "5", "6", "3">>>>,
     <<"color-sidebar-background", <<"#", "f", "9", "f", "a", "f", "b">>>>,
     <<"color-sidebar-background-border", <<"#", "e", "5", "e", "7", "e", "b">>>>,
     <<"color-sidebar-item-background--hover", <<"#", "f", "3", "f", "4", "f", "6">>>>,
     <<"color-sidebar-link-text", <<"#", "4", "b", "5", "5", "6", "3">>>>,
     <<"color-sidebar-link-text--top-level", <<"#", "1", "f", "2", "9", "3", "7">>>>,
     <<"color-sidebar-caption-text", <<"#", "6", "b", "7", "2", "8", "0">>>> >>
dark_css_variables ==
  << <<"color-brand-primary", <<"#", "9", "c", "a", "3", "a", "f">>>>,
     <<"color-brand-content", <<"#", "9", "c", "a", "3", "a", "f">>>>,
     <<"color-background-primary", <<"#", "1", "C", "1", "D", "1", "F">>>>,
     <<"color-background-secondary", <<"#", "2", "5", "2", "6", "2", "8">>>>,
     <<"color-background-hover", <<"#", "2", "a", "2", "c", "2", "f">>>>,
     <<"color-background-border", <<"#", "3", "8", "3", "9", "3", "b">>>>,
     <<"color-foreground-primary", <<"#", "d", "2", "d", "b", "d", "e">>>>,
     <<"color-foreground-secondary", <<"#", "8", "5", "9", "3", "9", "9">>>>,
     <<"color-foreground-muted", <<"#", "8", "5", "9", "3", "9", "9">>>>,
     <<"color-foreground-border", <<"#", "3", "8", "3", "9", "3", "b">>>>,
     <<"color-code-background", <<"#", "2", "a", "2", "c", "2", "f">>>>,
     <<"color-code-foreground", <<"#", "d", "2", "d", "b", "d", "e">>>>,
     <<"color-link", <<"#", "9", "c", "a", "3", "a", "f">>>>,
     <<"color-link-underline", <<"#", "9", "c", "a", "3", "a", "f">>>>,
     <<"color-link-underline--hover", <<"#", "d", "1", "d", "5", "d", "b">>>>,
     <<"color-sidebar-background", <<"#", "2", "5", "2", "6", "2", "8">>>>,
     <<"color-sidebar-background-border", <<"#", "3", "8", "3", "9", "3", "b">>>>,
     <<"color-sidebar-item-background--hover", <<"#", "2", "a", "2", "c", "2", "f">>>>,
     <<"color-sidebar-link-text", <<"#", "d", "2", "d", "b", "d", "e">>>>,
     <<"color-sidebar-link-text--top-level", <<"#", "f", "f", "f", "f", "f", "f">>>>,
     <<"color-sidebar-caption-text", <<"#", "8", "5", "9", "3", "9", "9">>>> >>
html_theme_options ==
  << << "top_of_page_buttons", << >> >>,
     << "light_css_variables", light_css_variables >>,
     << "dark_css_variables", dark_css_variables >> >>

html_static_path == << "_static" >>
html_permalinks_icon == "#"
html_css_files == << "css/custom.css" >>

(***************************************************************************)
(* The module body: the assignment targets of conf.py in statement order.  *)
(***************************************************************************)
\* The module body with html_title assigned a second time at its end.
Program_reassigning ==
  << "project", "copyright", "author", "extensions",
     "myst_enable_extensions", "myst_heading_anchors",
     "smv_branch_whitelist", "smv_tag_whitelist", "smv_remote_whitelist",
     "smv_released_pattern", "templates_path", "exclude_patterns",
     "source_suffix", "linkcheck_timeout", "linkcheck_workers",
     "linkcheck_retries", "linkcheck_ignore",
     "linkcheck_rate_limit_timeout", "linkcheck_anchors", "html_theme",
     "html_title", "html_theme_options", "html_static_path",
     "html_permalinks_icon", "html_css_files", "html_title" >>

Program ==
  << "project", "copyright", "author", "extensions",
     "myst_enable_extensions", "myst_heading_anchors",
     "smv_branch_whitelist", "smv_tag_whitelist", "smv_remote_whitelist",
     "smv_released_pattern", "templates_path", "exclude_patterns",
     "source_suffix", "linkcheck_timeout", "linkcheck_workers",
     "linkcheck_retries", "linkcheck_ignore",
     "linkcheck_rate_limit_timeout", "linkcheck_anchors", "html_theme",
     "html_title", "html_theme_options", "html_static_path",
     "html_permalinks_icon", "html_css_files" >>

SettingNames == { Program[i] : i \in DOMAIN Program }

(***************************************************************************)
(* Evaluation of a dict display: a key written twice keeps its last value. *)
(***************************************************************************)
KeysOf(entries) == { entries[i][1] : i \in DOMAIN entries }

DictOf(entries) ==
  [ k \in KeysOf(entries) |->
      LET last == CHOOSE i \in DOMAIN entries :
                    /\ entries[i][1] = k
                    /\ \A j \in DOMAIN entries : j > i => entries[j][1] # k
      IN  entries[last][2] ]

RepeatsKey(entries) ==
  \E i, j \in DOMAIN entries : i < j /\ entries[i][1] = entries[j][1]

(***************************************************************************)
(* The right-hand side of each assignment.  html_theme_options nests two   *)
(* dict displays (the palettes) and one list.                              *)
(***************************************************************************)
\* The theme options with the caption role missing from the dark palette.
ThemeOptionsValue_role_missing ==
  LET outer == DictOf(html_theme_options)
      dark == DictOf(dark_css_variables)
  IN  [ k \in DOMAIN outer |->
          CASE k = "light_css_variables" -> DictOf(light_css_variables)
            [] k = "dark_css_variables" ->
                 [ r \in DOMAIN dark \ {"color-sidebar-caption-text"} |->
                     dark[r] ]
            [] OTHER -> outer[k] ]

\* The theme options with one light colour in the three-digit shorthand.
ThemeOptionsValue_shorthand ==
  LET outer == DictOf(html_theme_options)
  IN  [ k \in DOMAIN outer |->
          CASE k = "light_css_variables" ->
                 [ DictOf(light_css_variables)
                     EXCEPT !["color-background-primary"] =
                              <<"#", "f", "f", "f">> ]
            [] k = "dark_css_variables" -> DictOf(dark_css_variables)
            [] OTHER -> outer[k] ]

ThemeOptionsValue ==
  LET outer == DictOf(html_theme_options)
  IN  [ k \in DOMAIN outer |->
          IF k \in {"light_css_variables", "dark_css_variables"}
            THEN DictOf(outer[k])
            ELSE outer[k] ]

Literal(name) ==
  CASE name = "project" -> project
    [] name = "copyright" -> copyright
    [] name = "author" -> author
    [] name = "extensions" -> extensions
    [] name = "myst_enable_extensions" -> myst_enable_extensions
    [] name = "myst_heading_anchors" -> myst_heading_anchors
    [] name = "smv_branch_whitelist" -> smv_branch_whitelist
    [] name = "smv_tag_whitelist" -> smv_tag_whitelist
    [] name = "smv_remote_whitelist" -> smv_remote_whitelist
    [] name = "smv_released_pattern" -> smv_released_pattern
    [] name = "templates_path" -> templates_path
    [] name = "exclude_patterns" -> exclude_patterns
    [] name = "source_suffix" -> DictOf(source_suffix)
    [] name = "linkcheck_timeout" -> linkcheck_timeout
    [] name = "linkcheck_workers" -> linkcheck_workers
    [] name = "linkcheck_retries" -> linkcheck_retries
    [] name = "linkcheck_ignore" -> linkcheck_ignore
    [] name = "linkcheck_rate_limit_timeout" -> linkcheck_rate_limit_timeout
    [] name = "linkcheck_anchors" -> linkcheck_anchors
    [] name = "html_theme" -> html_theme
    [] name = "html_title" -> html_title
    [] name = "html_theme_options" -> ThemeOptionsValue
    [] name = "html_static_path" -> html_static_path
    [] name = "html_permalinks_icon" -> html_permalinks_icon
    [] name = "html_css_files" -> html_css_files

\* An evaluation in which the copyright line takes its year from the
\* environment.
Eval_dated(name, e) == IF name = "copyright" THEN e ELSE Literal(name)

(***************************************************************************)
(* Every right-hand side of conf.py is a literal: none reads the           *)
(* environment e the interpreter runs the module in.                       *)
(***************************************************************************)
Eval(name, e) == Literal(name)

(***************************************************************************)
(* The dict displays an assignment evaluates that repeat a key.            *)
(***************************************************************************)
RepeatedIn(name) ==
  CASE name = "source_suffix" ->
         IF RepeatsKey(source_suffix) THEN {"source_suffix"} ELSE {}
    [] name = "html_theme_options" ->
         (IF RepeatsKey(html_theme_options)
            THEN {"html_theme_options"} ELSE {})
         \cup (IF RepeatsKey(light_css_variables)
                 THEN {"light_css_variables"} ELSE {})
         \cup (IF RepeatsKey(dark_css_variables)
                 THEN {"dark_css_variables"} ELSE {})
    [] OTHER -> {}

(***************************************************************************)
(* Regular expressions.  The pattern-valued settings are handed to         *)
(* Python's re.match by their consumers; this is re's reading of the       *)
(* syntax conf.py uses: literals, ^, $, ., \d, an escaped punctuation      *)
(* character, and the repeats + and *.  Syntax conf.py does not use        *)
(* (groups, sets, alternation, ?, {m,n}, the other escapes) is reported    *)
(* as "unsupported" instead of being guessed at.                           *)
(***************************************************************************)
Digits == {"0", "1", "2", "3", "4", "5", "6", "7", "8", "9"}

Letters ==
  {"a", "b", "c", "d", "e", "f", "g", "h", "i", "j", "k", "l", "m",
   "n", "o", "p", "q", "r", "s", "t", "u", "v", "w", "x", "y", "z",
   "A", "B", "C", "D", "E", "F", "G", "H", "I", "J", "K", "L", "M",
   "N", "O", "P", "Q", "R", "S", "T", "U", "V", "W", "X", "Y", "Z"}

\* Letters that name an escape in re; a backslash before any other letter
\* is the error "bad escape".
EscapeLetters ==
  {"a", "b", "f", "n", "r", "t", "v", "x", "u", "U", "N",
   "A", "B", "d", "D", "s", "S", "w", "W", "Z"}

Repeats == {"+", "*"}

OtherSyntax == {"?", "{", "}", "[", "]", "(", ")", "|"}

Item(kind, ch) == [kind |-> kind, ch |-> ch, rep |-> "one"]

RECURSIVE Parse(_, _, _)
Parse(p, i, items) ==
  IF i > Len(p) THEN [status |-> "ok", prog |-> items]
  ELSE LET c == p[i] IN
    CASE c = "\\" ->
           IF i = Len(p) THEN [status |-> "error", prog |-> items]
           ELSE LET n == p[i + 1] IN
             ( CASE n = "d" ->
                      Parse(p, i + 2, Append(items, Item("digit", n)))
                 [] n \in Letters \ EscapeLetters ->
                      [status |-> "error", prog |-> items]
                 [] n \in (EscapeLetters \ {"d"}) \cup Digits ->
                      [status |-> "unsupported", prog |-> items]
                 [] OTHER ->
                      Parse(p, i + 2, Append(items, Item("lit", n))) )
      [] c \in Repeats ->
           IF items = << >> \/ items[Len(items)].kind \in {"bol", "eol"}
             THEN [status |-> "error", prog |-> items]     \* nothing to repeat
           ELSE IF items[Len(items)].rep # "one"
             THEN IF c = "*"
                    THEN [status |-> "error", prog |-> items]  \* multiple repeat
                    ELSE [status |-> "unsupported", prog |-> items]
           ELSE Parse(p, i + 1,
                      [items EXCEPT ![Len(items)].rep =
                                      IF c = "+" THEN "plus" ELSE "star"])
      [] c = "^" -> Parse(p, i + 1, Append(items, Item("bol", c)))
      [] c = "$" -> Parse(p, i + 1, Append(items, Item("eol", c)))
      [] c = "." -> Parse(p, i + 1, Append(items, Item("any", c)))
      [] c \in OtherSyntax -> [status |-> "unsupported", prog |-> items]
      [] OTHER -> Parse(p, i + 1, Append(items, Item("lit", c)))

Compile(p) == Parse(p, 1, << >>)

\* Whether one item accepts one character.
Accepts(item, c) ==
  CASE item.kind = "lit" -> c = item.ch
    [] item.kind = "digit" -> c \in Digits
    [] item.kind = "any" -> c # "\n"
    [] OTHER -> FALSE

\* The offsets in s at which item can end when it starts at an offset of
\* from.  Without re.MULTILINE, ^ holds at offset 0 only and $ at the end
\* of s or before a final newline.
Advance(item, s, from) ==
  CASE item.kind = "bol" -> { q \in from : q = 0 }
    [] item.kind = "eol" ->
         { q \in from : \/ q = Len(s)
                        \/ q = Len(s) - 1 /\ s[Len(s)] = "\n" }
    [] item.rep = "one" ->
         { q + 1 : q \in { r \in from : r < Len(s) /\ Accepts(item, s[r + 1]) } }
    [] OTHER ->
         { q \in 0..Len(s) :
             \E r \in from :
               /\ r <= q
               /\ item.rep = "plus" => r < q
               /\ \A k \in (r + 1)..q : Accepts(item, s[k]) }

RECURSIVE Run(_, _, _, _)
Run(prog, k, s, at) ==
  IF k > Len(prog) THEN at ELSE Run(prog, k + 1, s, Advance(prog[k], s, at))

\* re.match(p, s): p matches at the start of s (it need not reach its end).
Match(p, s) ==
  LET c == Compile(p) IN c.status = "ok" /\ Run(c.prog, 1, s, {0}) # {}

(***************************************************************************)
(* What the consumers read the table with: git refs and URLs.              *)
(***************************************************************************)
SeqsUpTo(S, n) == UNION { [1..k -> S] : k \in 0..n }

Prefix(s, k) == SubSeq(s, 1, k)

StartsWith(s, p) == Len(s) >= Len(p) /\ Prefix(s, Len(p)) = p

\* One character replaced, inserted or dropped.
EditChars == {"s", "x"}

Edits(b) ==
  {b}
  \cup { [b EXCEPT ![i] = c] : i \in DOMAIN b, c \in EditChars }
  \cup { Prefix(b, i) \o <<c>> \o SubSeq(b, i + 1, Len(b)) :
           i \in 0..Len(b), c \in EditChars }
  \cup { Prefix(b, i - 1) \o SubSeq(b, i + 1, Len(b)) : i \in DOMAIN b }

\* Ref names: every name over the characters of a version tag, the branch
\* name main and a version tag, and what one edit makes of these two.
NameAlphabet == {"v", "1", "."}

RefNames ==
  SeqsUpTo(NameAlphabet, MaxNameLen)
  \cup Edits(<<"m", "a", "i", "n">>)
  \cup Edits(<<"v", "1", ".", "2", ".", "3">>)

\* Where git keeps a ref: tags, local branches, branches of a remote.
RefSources ==
  { <<"t", "a", "g", "s">>,
    <<"h", "e", "a", "d", "s">>,
    <<"r", "e", "m", "o", "t", "e", "s", "/", "o", "r", "i", "g", "i", "n">>,
    <<"r", "e", "m", "o", "t", "e", "s", "/", "f", "o", "r", "k">> }

\* URLs: the two loopback prefixes, each with at most one character
\* replaced, inserted or dropped, cut at any length, with a short tail.
UrlBases ==
  { <<"h", "t", "t", "p", ":", "/", "/", "l", "o", "c", "a", "l", "h", "o", "s", "t">>,
    <<"h", "t", "t", "p", ":", "/", "/", "1", "2", "7", ".", "0", ".", "0", ".", "1">> }

TailAlphabet == {"/", "x"}

Urls ==
  UNION { { Prefix(e, k) \o t : k \in 0..Len(e),
                                t \in SeqsUpTo(TailAlphabet, MaxSuffixLen) } :
          e \in UNION { Edits(b) : b \in UrlBases } }

Years == {"2025", "2026"}

NoProbe ==
  [kind |-> "none", source |-> << >>, text |-> << >>,
   accepted |-> FALSE, released |-> FALSE]

EmptyTable == [n \in {} |-> n]

(***************************************************************************)
(* sphinx-multiversion on one ref: the whitelist that applies depends on   *)
(* where the ref lives; a remote branch must pass the remote whitelist by  *)
(* its remote's name and the branch whitelist by its own.                  *)
(***************************************************************************)
RemotePrefix == <<"r", "e", "m", "o", "t", "e", "s", "/">>

RefAccepted(table, source, name) ==
  CASE source = <<"t", "a", "g", "s">> ->
         Match(table["smv_tag_whitelist"], name)
    [] source = <<"h", "e", "a", "d", "s">> ->
         Match(table["smv_branch_whitelist"], name)
    [] StartsWith(source, RemotePrefix) ->
         /\ Match(table["smv_remote_whitelist"],
                  SubSeq(source, Len(RemotePrefix) + 1, Len(source)))
         /\ Match(table["smv_branch_whitelist"], name)
    [] OTHER -> FALSE

\* The released pattern is matched against the ref's name under its source.
RefName(source, name) == source \o <<"/">> \o name

RefReleased(table, source, name) ==
  Match(table["smv_released_pattern"], RefName(source, name))

\* The linkcheck builder skips a URL that any ignore pattern matches.
LinkIgnored(table, uri) ==
  \E i \in DOMAIN table["linkcheck_ignore"] :
    Match(table["linkcheck_ignore"][i], uri)

(***************************************************************************)
(* The state machine.                                                      *)
(***************************************************************************)
Init ==
  /\ phase = "loading"
  /\ pc = 0
  /\ config = EmptyTable
  /\ writes = [n \in SettingNames |-> 0]
  /\ dupKeys = {}
  /\ env \in Years
  /\ builds = 0
  /\ prev = EmptyTable
  /\ probe = NoProbe

\* The interpreter executes the next assignment of conf.py.
Exec ==
  /\ phase = "loading"
  /\ pc < Len(Program)
  /\ LET name == Program[pc + 1]
         value == Eval(name, env)
     IN  /\ config' = [n \in DOMAIN config \cup {name} |->
                         IF n = name THEN value ELSE config[n]]
         /\ writes' = [writes EXCEPT ![name] = @ + 1]
         /\ dupKeys' = dupKeys \cup RepeatedIn(name)
  /\ pc' = pc + 1
  /\ phase' = IF pc + 1 = Len(Program) THEN "loaded" ELSE "loading"
  /\ UNCHANGED <<env, builds, prev, probe>>

\* sphinx-multiversion decides whether a ref is built and whether it
\* counts as released.
SelectRef ==
  /\ phase = "loaded"
  /\ probe = NoProbe
  /\ \E source \in RefSources, name \in RefNames :
       probe' = [kind |-> "ref", source |-> source, text |-> name,
                 accepted |-> RefAccepted(config, source, name),
                 released |-> RefReleased(config, source, name)]
  /\ UNCHANGED <<phase, pc, config, writes, dupKeys, env, builds, prev>>

\* The linkcheck builder decides whether a URL is skipped.
CheckLink ==
  /\ phase = "loaded"
  /\ probe = NoProbe
  /\ \E uri \in Urls :
       probe' = [kind |-> "link", source |-> << >>, text |-> uri,
                 accepted |-> LinkIgnored(config, uri), released |-> FALSE]
  /\ UNCHANGED <<phase, pc, config, writes, dupKeys, env, builds, prev>>

\* The consumer has used the outcome and moves on to its next ref or URL.
MoveOn ==
  /\ phase = "loaded"
  /\ probe # NoProbe
  /\ probe' = NoProbe
  /\ UNCHANGED <<phase, pc, config, writes, dupKeys, env, builds, prev>>

\* The build ends: the table is discarded, and the next invocation starts
\* to load conf.py again, possibly in another year.
EndBuild ==
  /\ phase = "loaded"
  /\ probe = NoProbe
  /\ builds < MaxBuilds
  /\ prev' = config
  /\ config' = EmptyTable
  /\ writes' = [n \in SettingNames |-> 0]
  /\ dupKeys' = {}
  /\ pc' = 0
  /\ phase' = "loading"
  /\ builds' = builds + 1
  /\ env' \in Years
  /\ probe' = NoProbe

Next == Exec \/ SelectRef \/ CheckLink \/ MoveOn \/ EndBuild

Spec == Init /\ [][Next]_vars

(***************************************************************************)
(* Properties of the loaded table.                                         *)
(***************************************************************************)
Loaded == phase = "loaded"

LightPalette == config["html_theme_options"]["light_css_variables"]

DarkPalette == config["html_theme_options"]["dark_css_variables"]

HexDigits == Digits \cup {"a", "b", "c", "d", "e", "f", "A", "B", "C", "D", "E", "F"}

IsHexColor(v) ==
  /\ Len(v) = 7
  /\ v[1] = "#"
  /\ \A i \in 2..7 : v[i] \in HexDigits

\* C1: the light and the dark palette of the loaded table hold the same
\* set of role names: no role is in one palette and missing from the other.
C1_PalettesHaveSameRoles ==
  Loaded => DOMAIN LightPalette = DOMAIN DarkPalette

C1_Witness ==
  /\ Loaded
  /\ "color-sidebar-caption-text" \in DOMAIN LightPalette
  /\ "color-sidebar-caption-text" \in DOMAIN DarkPalette
  /\ Cardinality(DOMAIN LightPalette) = Len(light_css_variables)

\* C2: every value of both palettes is a string of exactly 7 characters,
\* a '#' followed by 6 hexadecimal digits (0-9, a-f, A-F).
C2_PaletteValuesAreHexColors ==
  Loaded =>
    /\ \A r \in DOMAIN LightPalette : IsHexColor(LightPalette[r])
    /\ \A r \in DOMAIN DarkPalette : IsHexColor(DarkPalette[r])

\* The dark palette spells one colour in upper case.
C2_Witness ==
  /\ Loaded
  /\ DarkPalette["color-background-primary"] = <<"#", "1", "C", "1", "D", "1", "F">>
  /\ LightPalette["color-background-primary"] = <<"#", "f", "f", "f", "f", "f", "f">>

PatternSettings ==
  {"smv_branch_whitelist", "smv_tag_whitelist", "smv_remote_whitelist",
   "smv_released_pattern"}

\* C3: each of the four pattern-valued version filters of the loaded table
\* compiles as a valid regular expression.
C3_PatternsCompile ==
  Loaded => \A n \in PatternSettings : Compile(config[n]).status = "ok"

\* The tag whitelist compiles to its eight items: ^ v \d+ \. \d+ \. \d+ $.
C3_Witness ==
  /\ Loaded
  /\ Len(Compile(config["smv_tag_whitelist"]).prog) = 8
  /\ Compile(config["smv_tag_whitelist"]).prog[3] =
       [kind |-> "digit", ch |-> "d", rep |-> "plus"]

\* C4: every key of source_suffix begins with '.', and the keys as written
\* are pairwise distinct (the display repeats none, so the mapping has as
\* many keys as the display has entries).
C4_SuffixKeysDottedAndDistinct ==
  "source_suffix" \in DOMAIN config =>
    /\ \A k \in DOMAIN config["source_suffix"] : Len(k) >= 1 /\ k[1] = "."
    /\ "source_suffix" \notin dupKeys
    /\ Cardinality(DOMAIN config["source_suffix"]) = Len(source_suffix)

C4_Witness ==
  /\ "source_suffix" \in DOMAIN config
  /\ <<".", "m", "d">> \in DOMAIN config["source_suffix"]
  /\ <<".", "r", "s", "t">> \in DOMAIN config["source_suffix"]

\* C5: linkcheck_timeout = 30, linkcheck_workers = 5, linkcheck_retries = 3
\* and linkcheck_rate_limit_timeout = 60.0, and none of them is negative.
C5_LinkcheckNumbers ==
  Loaded =>
    /\ config["linkcheck_timeout"] = 30
    /\ config["linkcheck_workers"] = 5
    /\ config["linkcheck_retries"] = 3
    /\ config["linkcheck_rate_limit_timeout"] = 60
    /\ \A n \in {"linkcheck_timeout", "linkcheck_workers", "linkcheck_retries",
                 "linkcheck_rate_limit_timeout"} : config[n] >= 0

C5_Witness ==
  /\ Loaded
  /\ config["linkcheck_timeout"] + config["linkcheck_workers"]
       + config["linkcheck_retries"] + config["linkcheck_rate_limit_timeout"] = 98

\* C6: every setting name is unique: no top-level name is assigned more
\* than once while conf.py is executed, and no dict display (source_suffix,
\* html_theme_options, light_css_variables, dark_css_variables) repeats a key.
C6_SettingNamesUnique ==
  /\ \A n \in SettingNames : writes[n] <= 1
  /\ dupKeys = {}

C6_Witness ==
  /\ Loaded
  /\ \A n \in SettingNames : writes[n] = 1
  /\ DOMAIN config = SettingNames

(***************************************************************************)
(* Properties of the table's lifetime.                                     *)
(***************************************************************************)
\* C7: the table is constructed once, in full, before any build activity
\* begins (a consumer reads only a table that holds every setting, each
\* assigned once); it is read-only for the duration of a build (no step
\* taken while the table is loaded changes a setting); and the next build
\* reconstructs the same table from source.
C7_LoadedOnceThenReadOnly ==
  /\ [](probe.kind # "none" =>
          /\ Loaded
          /\ DOMAIN config = SettingNames
          /\ \A n \in SettingNames : writes[n] = 1)
  /\ [][(Loaded /\ phase' = "loaded") => config' = config]_vars
  /\ [](Loaded /\ builds > 0 => config = prev)

\* A consumer reads the table of a second build, which equals the first.
C7_Witness ==
  /\ Loaded
  /\ builds > 0
  /\ probe.kind = "link"
  /\ config = prev
  /\ config["copyright"] = copyright

(***************************************************************************)
(* Properties of the filters.                                              *)
(***************************************************************************)
TagsSource == <<"t", "a", "g", "s">>

MainBranch == <<"m", "a", "i", "n">>

\* 'v' digits '.' digits '.' digits, each group non-empty, nothing else.
IsVersionTag(t) ==
  /\ Len(t) >= 6
  /\ t[1] = "v"
  /\ \E i, j \in 3..(Len(t) - 1) :
       /\ i + 1 < j
       /\ t[i] = "." /\ t[j] = "."
       /\ \A k \in (2..Len(t)) \ {i, j} : t[k] \in Digits

\* C9: a tag name t is accepted by smv_tag_whitelist exactly when it has
\* the form 'v' digits '.' digits '.' digits, and exactly when 'tags/' + t
\* is accepted by smv_released_pattern; and the name main is accepted by
\* smv_released_pattern under no reference prefix.
C9_TagAndReleaseFiltersAgree ==
  probe.kind = "ref" =>
    /\ probe.source = TagsSource =>
         /\ probe.accepted <=> IsVersionTag(probe.text)
         /\ probe.accepted <=> probe.released
    /\ probe.text = MainBranch => ~probe.released

\* A tag with a two-digit group is selected and counted as released.
C9_Witness ==
  /\ probe.kind = "ref"
  /\ probe.source = TagsSource
  /\ probe.text = <<"v", "1", "1", ".", "1", ".", "1">>
  /\ probe.accepted
  /\ probe.released

LocalhostPrefix ==
  <<"h", "t", "t", "p", ":", "/", "/", "l", "o", "c", "a", "l", "h", "o", "s", "t">>

LoopbackPrefix ==
  <<"h", "t", "t", "p", ":", "/", "/", "1", "2", "7", ".", "0", ".", "0", ".", "1">>

HttpsScheme == <<"h", "t", "t", "p", "s", ":", "/", "/">>

\* C10: a URL is matched from its start by some pattern of linkcheck_ignore
\* exactly when it begins with 'http://localhost' or 'http://127.0.0.1'
\* (literal dots); in particular no 'https://' URL is skipped.
C10_IgnoredIffLoopbackPrefix ==
  probe.kind = "link" =>
    /\ probe.accepted <=> \/ StartsWith(probe.text, LocalhostPrefix)
                          \/ StartsWith(probe.text, LoopbackPrefix)
    /\ StartsWith(probe.text, HttpsScheme) => ~probe.accepted

\* A loopback URL with a path is skipped.
C10_Witness ==
  /\ probe.kind = "link"
  /\ probe.text = LoopbackPrefix \o <<"/">>
  /\ probe.accepted

=============================================================================
